---------------------------- MODULE Spec2Model ----------------------------
(***************************************************************************)
(* State-machine model of backend/app.py: the Flask handlers and their     *)
(* observability path (Redis recent-activity list, Kafka audit topic,      *)
(* OpenTelemetry counters and spans).                                      *)
(*                                                                         *)
(* Every request is served by a thread.  A thread's locals live in th[t];  *)
(* the external stores (Redis, Kafka, MariaDB) and the client's session    *)
(* cookie are global variables.  Each network command is one atomic step   *)
(* whose outcome (ok / exception) is chosen nondeterministically.          *)
(***************************************************************************)
EXTENDS Integers, Sequences, FiniteSets, TLC

VARIABLES
    th,         \* thread -> record of the locals of the operation it runs
    api_logs,   \* Redis list 'api_logs', head (index 1) first
    history,    \* ghost: the entries lpush'ed so far, in push order
    failed,     \* ghost: number of log_to_redis calls that hit the except branch
    clock,      \* datetime.now(): next timestamp to hand out
    started,    \* number of operations started (bounded)
    session,    \* the client's session cookie: its user_id, or "none"
    users,      \* MariaDB table users: username -> password
    messages,   \* MariaDB table messages: number of rows
    sessKeys,   \* Redis keys session:<user>: user -> "absent" | "no_ttl" | "ttl"
    api_calls,  \* counter api.calls: <<endpoint, status>> -> value
    db_ops,     \* counter db.operations: value
    exported,   \* whether the OTLP exporter has delivered api.calls as it stands
    units,      \* the threads started by async_log_api_stats, in start order
    topic,      \* Kafka topic 'api-logs': the events delivered, in log order
    viewer      \* Kafka consumer group 'api-logs-viewer'

\* what the handlers own besides th, the Redis list and the clock
app == <<session, users, messages, sessKeys, api_calls, db_ops, exported, units, topic,
         viewer>>

vars == <<th, api_logs, history, failed, clock, started, session, users, messages,
          sessKeys, api_calls, db_ops, exported, units, topic, viewer>>

Threads == {"t1", "t2"}

\* ---- bounds of the model ------------------------------------------------
MaxOps == 2
MaxReqs == 1
MaxDrains == 2
MaxStored == 3
MaxSess == 3

\* ---- program constants --------------------------------------------------
max_retries == 3
retry_delay == 2
TrimStart == 0
TrimStop == 99
RangeStart == -100
RangeStop == -1
DrainLimit == 100

LogCap == TrimStop - TrimStart + 1

Actions == {"db_insert", "db_insert_error"}

\* The Redis list as it may be found when the process starts: Redis outlives
\* the process, so the list holds what k earlier sequential calls left there.
PrefillSizes == {LogCap - 1, LogCap}

\* ---- pure helpers -------------------------------------------------------

\* json.dumps / json.loads: a serialised value is a tagged string; a string
\* that is not JSON makes json.loads raise.
JsonDumps(v) == [json |-> TRUE, text |-> v]

JsonLoadsRaises(s) == ~s.json

JsonLoads(s) == s.text

Reverse(s) == [i \in 1..Len(s) |-> s[Len(s) + 1 - i]]

\* Redis index normalisation: a negative index counts from the tail.
RedisIndex(i, len) == IF i < 0 THEN len + i ELSE i

\* Redis LPUSH key item
LPush(list, item) == <<item>> \o list

\* Redis LRANGE key start stop (0-based, inclusive, negative from the tail)
LRange(list, start, stop) ==
    LET len == Len(list)
        s0  == RedisIndex(start, len)
        e0  == RedisIndex(stop, len)
        s   == IF s0 < 0 THEN 0 ELSE s0
        e   == IF e0 >= len THEN len - 1 ELSE e0
    IN  IF s > e \/ s >= len THEN <<>> ELSE SubSeq(list, s + 1, e + 1)

\* Redis LTRIM key start stop: keep exactly what LRANGE would return
LTrim(list, start, stop) == LRange(list, start, stop)

\* ---- thread locals ------------------------------------------------------

NoEntry == [timestamp |-> 0, action |-> "none", details |-> "none"]

NoResp == [code |-> 0, status |-> "none"]

NoSpan == [open |-> FALSE, error |-> FALSE, closes |-> 0]

\* A request and what its environment does to it: db is whether MariaDB
\* serves it; thread is what Thread.start() does during it: "ok", or "fail"
\* (RuntimeError: can't start new thread).
NoReq == [kind |-> "none", body |-> "none", username |-> "none",
          password |-> "none", db |-> TRUE, thread |-> "ok"]

Idle ==
    [op |-> "none", pc |-> "idle",
     \* innermost enclosing try block, and the one around the log_to_redis call
     try |-> "none", outerTry |-> "none",
     \* get_redis_connection
     attempt |-> 0, pings |-> 0, slept |-> 0, lastPing |-> FALSE,
     connRaised |-> FALSE, conn |-> FALSE, connOk |-> "none", unclosed |-> 0,
     \* log_to_redis
     action |-> "none", details |-> "none", entry |-> NoEntry, pushes |-> 0,
     recRet |-> "none", recCalls |-> 0, recRaised |-> FALSE,
     \* get_redis_logs
     out |-> <<>>, raw |-> <<>>, histAt |-> 0, quiet |-> FALSE,
     \* a request handler: the request, the local user_id, whether the body
     \* ran (login_required let it through), the api.calls increments made
     \* and the audit events handed to async_log_api_stats for this request
     req |-> NoReq, user_id |-> "none", entered |-> FALSE,
     incS |-> 0, incE |-> 0, handed |-> <<>>,
     \* the observability steps the handler has made for this request, in
     \* their order: "counter" (api_counter.add), "logline" (logger.info,
     \* warning or error), "record" (the call of log_to_redis) and "publish"
     \* (the call of async_log_api_stats)
     obs |-> <<>>,
     \* get_kafka_logs: the list logs, the consumer's fetch position, the
     \* position its first assignment gave it (-1: never assigned), and whether
     \* the loop raised
     logs |-> <<>>, pos |-> 0, startPos |-> -1, raised |-> FALSE,
     \* logout: what the key session:<user> held when the handler started
     keyBefore |-> "none",
     \* the operation's result
     span |-> NoSpan, escaped |-> FALSE, resp |-> NoResp]

Free(t) == th[t].pc \in {"idle", "done"}

InRecord(t) == th[t].try = "rec"

\* ---- exceptions ---------------------------------------------------------

\* log_to_redis, lines 184-185: the exception is printed and the function
\* returns normally to its caller (the client is not closed on this path).
\* A frame that is left: its locals are gone.  A client that was never
\* closed is left open (unclosed counts them); of the connection attempt only
\* an exhausted retry loop stays visible, in what the caller logs.
DropClient(loc) ==
    IF loc.connRaised
    THEN loc
    ELSE [loc EXCEPT !.attempt = 0, !.pings = 0, !.slept = 0, !.lastPing = FALSE,
                     !.conn = FALSE,
                     !.unclosed = IF loc.conn THEN @ + 1 ELSE @]

RecLeave(loc) ==
    [DropClient(loc) EXCEPT !.action = "none", !.details = "none", !.entry = NoEntry]

CloseSpan(span, error) ==
    [open |-> FALSE, error |-> span.error \/ error, closes |-> span.closes + 1]

\* get_redis_logs, lines 322-326
get_redis_logs_except(loc) ==
    [DropClient(loc) EXCEPT !.pc = "done", !.try = "none",
                            !.span = CloseSpan(@, TRUE),
                            !.resp = [code |-> 500, status |-> "error"]]

\* save_to_db, lines 258-260: the span is flagged; the rest of the clause
\* runs outside the try
save_to_db_except(loc) ==
    [loc EXCEPT !.pc = "save_exc", !.try = "none", !.span.error = TRUE]

\* login, lines 406-407: a warning is logged and the handler goes on
login_redis_error(loc) ==
    [DropClient(loc) EXCEPT !.pc = "login_ok", !.try = "login"]

\* login, lines 424-426
login_except(loc) ==
    [DropClient(loc) EXCEPT !.pc = "login_exc", !.try = "none", !.span.error = TRUE]

\* The variant in which an exception that leaves the handler does not close
\* the span (a span started without the with statement).
UncaughtLeavesSpan(loc) ==
    [loc EXCEPT !.pc = "done", !.try = "none", !.escaped = TRUE,
                !.resp = IF loc.op \in {"save", "login"}
                         THEN [code |-> 500, status |-> "crash"] ELSE @]

\* An exception no clause of the handler catches leaves the with block (the
\* span is closed, without the error attributes the except clauses set) and
\* Flask answers 500.
Uncaught(loc) ==
    [loc EXCEPT !.pc = "done", !.try = "none", !.escaped = TRUE,
                !.span = IF @.open THEN CloseSpan(@, FALSE) ELSE @,
                !.resp = IF loc.op \in {"save", "login"}
                         THEN [code |-> 500, status |-> "crash"] ELSE @]

\* The except clauses other than log_to_redis's own.
\* get_kafka_logs, lines 513-515
get_kafka_logs_except(loc) ==
    [loc EXCEPT !.pc = "done", !.try = "none", !.logs = <<>>,
                !.resp = [code |-> 500, status |-> "error"]]

\* get_from_db, line 287, and search_messages, line 471
query_except(loc) == [loc EXCEPT !.pc = "query_exc", !.try = "none"]

\* logout, lines 445-446
logout_except(loc) ==
    [DropClient(loc) EXCEPT !.pc = "done", !.try = "none",
                            !.resp = [code |-> 500, status |-> "error"]]

ThrowOuter(loc) ==
    CASE loc.try = "read"  -> get_redis_logs_except(loc)
      [] loc.try = "drain" -> get_kafka_logs_except(loc)
      [] loc.try = "query" -> query_except(loc)
      [] loc.try = "logout" -> logout_except(loc)
      [] loc.try = "save"  -> save_to_db_except(loc)
      [] loc.try = "sess"  -> login_redis_error(loc)
      [] loc.try = "login" -> login_except(loc)
      [] OTHER             -> Uncaught(loc)

\* The variant of log_to_redis without its except clause: the exception goes
\* on to the caller's.
log_to_redis_propagates(loc) ==
    ThrowOuter([RecLeave(loc) EXCEPT !.try = loc.outerTry, !.recRaised = TRUE])

\* log_to_redis, lines 184-185
log_to_redis_except(loc) ==
    [RecLeave(loc) EXCEPT !.pc = loc.recRet, !.try = loc.outerTry, !.recRaised = TRUE]

\* An exception raised at the thread's current position goes to the
\* innermost enclosing except clause.
Throw(loc) ==
    IF loc.try = "rec" THEN log_to_redis_except(loc) ELSE ThrowOuter(loc)

\* ---- get_redis_connection ----------------------------------------------

\* The call: the loop variable starts at 0.
CallConnect(loc, ok) ==
    [loc EXCEPT !.pc = "connect", !.attempt = 0, !.pings = 0, !.slept = 0,
                !.lastPing = FALSE, !.connRaised = FALSE, !.conn = FALSE,
                !.connOk = ok]

\* The return to the caller.  (pings, slept and lastPing record what the
\* call did; they stay until the thread's next call of the function.)
ConnReturn(loc) == [loc EXCEPT !.pc = loc.connOk]

\* The variant of line 151 that sleeps and retries after the last attempt too.
ShouldRetrySleepsAfterLast(attempt) == attempt < max_retries

\* line 151: sleep and retry unless this was the last attempt
ShouldRetry(attempt) == attempt < max_retries - 1

\* lines 137-149: the client is built, ping succeeds, the client is returned
ConnectOk(t) ==
    /\ th[t].pc = "connect"
    /\ th' = [th EXCEPT ![t] = ConnReturn([@ EXCEPT !.pings = @ + 1, !.lastPing = TRUE,
                                                   !.conn = TRUE])]
    /\ UNCHANGED <<api_logs, history, failed, clock, started>>
    /\ UNCHANGED app

\* lines 150-158: ping (or the constructor) raises
ConnectFail(t) ==
    /\ th[t].pc = "connect"
    /\ LET loc == [th[t] EXCEPT !.pings = @ + 1, !.lastPing = FALSE]
       IN  IF ShouldRetry(loc.attempt)
           THEN \* sleep, then the next iteration; a loop that runs out
                \* returns None to the caller
                LET nxt == [loc EXCEPT !.slept = @ + retry_delay, !.attempt = @ + 1]
                IN  th' = [th EXCEPT ![t] =
                             IF nxt.attempt < max_retries THEN nxt ELSE ConnReturn(nxt)]
           ELSE th' = [th EXCEPT ![t] = Throw([loc EXCEPT !.connRaised = TRUE])]
    /\ failed' = IF InRecord(t) /\ ~ShouldRetry(th[t].attempt)
                 THEN failed + 1 ELSE failed
    /\ UNCHANGED <<api_logs, history, clock, started>>
    /\ UNCHANGED app

\* ---- log_to_redis -------------------------------------------------------

\* The call log_to_redis(action, details) made with locals loc; ret is the
\* caller's position after the call.
CallLogToRedis(loc, action, details, ret) ==
    CallConnect([loc EXCEPT !.action = action, !.details = details,
                            !.entry = NoEntry, !.pushes = 0, !.recRet = ret,
                            !.recCalls = @ + 1, !.recRaised = FALSE,
                            !.outerTry = loc.try, !.try = "rec"],
                "rec_entry")

\* lines 176-180
RecEntry(t) ==
    /\ th[t].pc = "rec_entry"
    /\ th' = [th EXCEPT ![t].entry = [timestamp |-> clock,
                                      action |-> th[t].action,
                                      details |-> th[t].details],
                        ![t].pc = "rec_push"]
    /\ clock' = clock + 1
    /\ UNCHANGED <<api_logs, history, failed, started>>
    /\ UNCHANGED app

\* line 181
RecPush(t, ok) ==
    /\ th[t].pc = "rec_push"
    /\ IF ok
       THEN /\ api_logs' = LPush(api_logs, JsonDumps(th[t].entry))
            /\ history' = Append(history, th[t].entry)
            /\ th' = [th EXCEPT ![t].pushes = @ + 1, ![t].pc = "rec_trim"]
            /\ UNCHANGED failed
       ELSE /\ th' = [th EXCEPT ![t] = Throw(th[t])]
            /\ failed' = failed + 1
            /\ UNCHANGED <<api_logs, history>>
    /\ UNCHANGED <<clock, started>>
    /\ UNCHANGED app

\* line 182
RecTrim(t, ok) ==
    /\ th[t].pc = "rec_trim"
    /\ IF ok
       THEN /\ api_logs' = LTrim(api_logs, TrimStart, TrimStop)
            /\ th' = [th EXCEPT ![t].pc = "rec_close"]
            /\ UNCHANGED failed
       ELSE /\ th' = [th EXCEPT ![t] = Throw(th[t])]
            /\ failed' = failed + 1
            /\ UNCHANGED api_logs
    /\ UNCHANGED <<history, clock, started>>
    /\ UNCHANGED app

\* line 183, and the return
RecClose(t) ==
    /\ th[t].pc = "rec_close"
    /\ th' = [th EXCEPT ![t] = [RecLeave([@ EXCEPT !.conn = FALSE])
                                    EXCEPT !.pc = th[t].recRet, !.try = th[t].outerTry]]
    /\ UNCHANGED <<api_logs, history, failed, clock, started>>
    /\ UNCHANGED app

RedisConn(t) == ConnectOk(t) \/ ConnectFail(t)

LogToRedis(t) ==
    \/ RecEntry(t)
    \/ \E ok \in BOOLEAN : RecPush(t, ok)
    \/ \E ok \in BOOLEAN : RecTrim(t, ok)
    \/ RecClose(t)

\* A caller of log_to_redis (here: a direct call, as a test of the function
\* makes it)
StartRecord(t, action, details) ==
    /\ Free(t)
    /\ started' = started + 1
    /\ th' = [th EXCEPT ![t] =
                CallLogToRedis([Idle EXCEPT !.op = "record"], action, details, "done")]
    /\ UNCHANGED <<api_logs, history, failed, clock>>
    /\ UNCHANGED app

\* ---- get_redis_logs -----------------------------------------------------

\* lines 298-300
StartRead(t) ==
    /\ Free(t)
    /\ started' = started + 1
    /\ th' = [th EXCEPT ![t] =
                CallConnect([Idle EXCEPT !.op = "read", !.try = "read",
                                         !.span = [open |-> TRUE, error |-> FALSE,
                                                   closes |-> 0]],
                            "read_type")]
    /\ UNCHANGED <<api_logs, history, failed, clock>>
    /\ UNCHANGED app

\* lines 303-304
ReadType(t, ok) ==
    /\ th[t].pc = "read_type"
    /\ th' = [th EXCEPT ![t] = IF ok THEN [@ EXCEPT !.pc = "read_llen"] ELSE Throw(@)]
    /\ UNCHANGED <<api_logs, history, failed, clock, started>>
    /\ UNCHANGED app

\* lines 305-306
ReadLlen(t, ok) ==
    /\ th[t].pc = "read_llen"
    /\ th' = [th EXCEPT ![t] = IF ok THEN [@ EXCEPT !.pc = "read_range"] ELSE Throw(@)]
    /\ UNCHANGED <<api_logs, history, failed, clock, started>>
    /\ UNCHANGED app

\* The variant of lines 311-316 that leaves out an item that does not parse.
ParseAllDropping(raw) ==
    LET kept == SelectSeq(raw, LAMBDA item : ~JsonLoadsRaises(item))
    IN [i \in 1..Len(kept) |-> JsonLoads(kept[i])]

\* lines 311-316: each item is parsed, one that does not parse is kept raw
ParseAll(raw) ==
    [i \in 1..Len(raw) |->
        IF JsonLoadsRaises(raw[i]) THEN [raw |-> raw[i]] ELSE JsonLoads(raw[i])]

\* lines 309-321
ReadRange(t, ok) ==
    /\ th[t].pc = "read_range"
    /\ IF ok
       THEN th' = [th EXCEPT ![t] =
                     [DropClient(@) EXCEPT
                        !.raw = LRange(api_logs, RangeStart, RangeStop),
                        !.out = Reverse(ParseAll(LRange(api_logs, RangeStart,
                                                        RangeStop))),
                        !.histAt = Len(history),
                        !.quiet = (failed = 0 /\ \A u \in Threads : ~InRecord(u)),
                        !.span = CloseSpan(@, FALSE),
                        !.resp = [code |-> 200, status |-> "success"],
                        !.try = "none",
                        !.pc = "done"]]
       ELSE th' = [th EXCEPT ![t] = Throw(@)]
    /\ UNCHANGED <<api_logs, history, failed, clock, started>>
    /\ UNCHANGED app

GetRedisLogs(t) ==
    \/ \E ok \in BOOLEAN : ReadType(t, ok)
    \/ \E ok \in BOOLEAN : ReadLlen(t, ok)
    \/ \E ok \in BOOLEAN : ReadRange(t, ok)

\* ---- the process and its stores at start ---------------------------------

Usernames == {"alice"}

\* The names a client may send.
Names == Usernames \cup {"bob"}

Passwords == {"pw", "bad"}

Endpoints == {"/db/message", "/login"}

Statuses == {"success", "error"}

\* The consumer group before any consumer joined it: no committed offset
\* (-1), no member, the partition assigned to nobody.
NoGroup == [committed |-> -1, members |-> {}, owner |-> "none"]

\* One registered user; empty tables, topic and counters.
InitApp ==
    /\ users = [u \in Usernames |-> "pw"]
    /\ messages = 0
    /\ sessKeys = [u \in Names |-> "absent"]
    /\ api_calls = [l \in Endpoints \X Statuses |-> 0]
    /\ db_ops = 0
    /\ exported = TRUE
    /\ units = <<>>
    /\ topic = <<>>
    /\ viewer = NoGroup

\* ---- counters and the audit publisher -----------------------------------

\* api_counter.add(1, {"endpoint": ..., "method": "POST", "status": ...}):
\* the SDK adds to the in-process aggregate, which the metric reader has then
\* still to export
ApiAdd(endpoint, status) ==
    /\ api_calls' = [api_calls EXCEPT ![<<endpoint, status>>] = @ + 1]
    /\ exported' = FALSE

\* The _log closure of one async_log_api_stats call, lines 191-205: the
\* event's fields, the closure's position, the timestamp it takes and whether
\* it holds a producer that has not been closed.
LogClosure(t, endpoint, method, status, user_id) ==
    [owner |-> t, endpoint |-> endpoint, method |-> method, status |-> status,
     user_id |-> user_id, timestamp |-> 0, st |-> "new", producer |-> FALSE]

\* The variant Thread(target=_log).run(): the caller runs the closure itself,
\* which has ended, here on an unreachable broker, when the call returns.
Thread_run(target) == [target EXCEPT !.st = "failed"]

\* line 208, Thread(target=_log).start(): the closure runs on a thread of its
\* own, which has not run when start() returns.
Thread_start(target) == [target EXCEPT !.st = "spawned"]

\* Whether the next Thread.start() of the request with locals loc succeeds.
ThreadStarts(loc) == loc.req.thread = "ok"

\* line 193
UnitProducer(i, ok) ==
    /\ i \in DOMAIN units
    /\ units[i].st = "spawned"
    /\ units' = [units EXCEPT ![i].st = IF ok THEN "producer" ELSE "failed",
                              ![i].producer = ok]
    /\ UNCHANGED <<th, api_logs, history, failed, clock, started, session, users,
                   messages, sessKeys, api_calls, db_ops, exported, topic, viewer>>

\* lines 194-202: the event is built and handed to the producer's buffer
UnitSend(i, ok) ==
    /\ i \in DOMAIN units
    /\ units[i].st = "producer"
    /\ units' = [units EXCEPT ![i].timestamp = clock,
                              ![i].st = IF ok THEN "sent" ELSE "failed"]
    /\ clock' = clock + 1
    /\ UNCHANGED <<th, api_logs, history, failed, started, session, users,
                   messages, sessKeys, api_calls, db_ops, exported, topic, viewer>>

\* The event as the topic holds it.
AuditEvent(u) ==
    [timestamp |-> u.timestamp, endpoint |-> u.endpoint, method |-> u.method,
     status |-> u.status, user_id |-> u.user_id,
     message |-> <<u.user_id, u.method, u.endpoint, u.status>>]

\* line 203
UnitFlush(i, ok) ==
    /\ i \in DOMAIN units
    /\ units[i].st = "sent"
    /\ IF ok
       THEN /\ topic' = Append(topic, AuditEvent(units[i]))
            /\ units' = [units EXCEPT ![i].st = "done"]
       ELSE /\ units' = [units EXCEPT ![i].st = "failed"]
            /\ UNCHANGED topic
    /\ UNCHANGED <<th, api_logs, history, failed, clock, started, session, users,
                   messages, sessKeys, api_calls, db_ops, exported, viewer>>

\* lines 61-64: the periodic metric reader hands api.calls to the OTLP
\* exporter, which delivers it or not
OtelExport(ok) ==
    /\ ~exported
    /\ exported' = ok
    /\ UNCHANGED <<th, api_logs, history, failed, clock, started, session, users,
                   messages, sessKeys, api_calls, db_ops, units, topic, viewer>>

\* ---- save_to_db ---------------------------------------------------------

OpenSpan == [open |-> TRUE, error |-> FALSE, closes |-> 0]

\* The locals of a handler that starts on request req.
Handler(req) == [Idle EXCEPT !.op = req.kind, !.req = req]

\* The variant of line 219 that lets every request through.
HasUserAlways(s) == TRUE

\* login_required, line 219: 'user_id' in session
HasUser(s) == s # "none"

\* login_required, lines 216-222: without a user_id in the session the
\* handler is not called
Unauthorized(req) ==
    [Handler(req) EXCEPT !.pc = "done", !.resp = [code |-> 401, status |-> "error"]]

\* lines 227-233
StartSave(t, req) ==
    /\ Free(t)
    /\ req.kind = "save"
    /\ started' = started + 1
    /\ th' = [th EXCEPT ![t] =
                IF ~HasUser(session)
                THEN Unauthorized(req)
                ELSE [Handler(req) EXCEPT !.entered = TRUE, !.user_id = session,
                                          !.try = "save", !.span = OpenSpan,
                                          !.pc = "save_db"]]
    /\ UNCHANGED <<api_logs, history, failed, clock, session, users, messages,
                   sessKeys, api_calls, db_ops, exported, units, topic, viewer>>

\* lines 235-253: the insert, the two counters, then the call of log_to_redis
SaveDb(t) ==
    /\ th[t].pc = "save_db"
    /\ IF th[t].req.db /\ th[t].req.body = "ok"
       THEN /\ messages' = messages + 1
            /\ ApiAdd("/db/message", "success")
            /\ db_ops' = db_ops + 1
            /\ th' = [th EXCEPT ![t] =
                        CallLogToRedis([@ EXCEPT !.incS = @ + 1,
                                                 !.obs = @ \o <<"counter", "record">>],
                                       "db_insert", "m", "save_pub")]
       ELSE /\ th' = [th EXCEPT ![t] = Throw(@)]
            /\ UNCHANGED <<messages, api_calls, db_ops, exported>>
    /\ UNCHANGED <<api_logs, history, failed, clock, started, session, users,
                   sessKeys, units, topic, viewer>>

\* lines 254-257
SavePublish(t) ==
    /\ th[t].pc = "save_pub"
    /\ LET target == LogClosure(t, "/db/message", "POST", "success", th[t].user_id)
       IN  IF ThreadStarts(th[t])
           THEN /\ units' = Append(units, Thread_start(target))
                /\ th' = [th EXCEPT ![t].handed = Append(@, target),
                                    ![t].obs = @ \o <<"logline", "publish">>,
                                    ![t].span = CloseSpan(@, FALSE),
                                    ![t].resp = [code |-> 200, status |-> "success"],
                                    ![t].try = "none", ![t].pc = "done"]
           ELSE /\ th' = [th EXCEPT ![t] =
                            Throw([@ EXCEPT !.obs = @ \o <<"logline", "publish">>])]
                /\ UNCHANGED units
    /\ UNCHANGED <<api_logs, history, failed, clock, started, session, users,
                   messages, sessKeys, api_calls, db_ops, exported, topic, viewer>>

\* lines 262-267 (the span was flagged on entry to the clause)
SaveExc(t) ==
    /\ th[t].pc = "save_exc"
    /\ ApiAdd("/db/message", "error")
    /\ LET target == LogClosure(t, "/db/message", "POST", "error", th[t].user_id)
           loc    == [th[t] EXCEPT !.incE = @ + 1,
                                   !.obs = @ \o <<"counter", "logline", "publish">>]
       IN  IF ThreadStarts(th[t])
           THEN /\ units' = Append(units, Thread_start(target))
                /\ th' = [th EXCEPT ![t] =
                            CallLogToRedis([loc EXCEPT !.handed = Append(@, target),
                                                       !.obs = Append(@, "record")],
                                           "db_insert_error", "e", "save_fail")]
           ELSE /\ th' = [th EXCEPT ![t] = Uncaught(loc)]
                /\ UNCHANGED units
    /\ UNCHANGED <<api_logs, history, failed, clock, started, session, users,
                   messages, sessKeys, db_ops, topic, viewer>>

\* line 268
SaveFail(t) ==
    /\ th[t].pc = "save_fail"
    /\ th' = [th EXCEPT ![t].span = CloseSpan(@, FALSE),
                        ![t].resp = [code |-> 500, status |-> "error"],
                        ![t].pc = "done"]
    /\ UNCHANGED <<api_logs, history, failed, clock, started>>
    /\ UNCHANGED app

\* ---- login --------------------------------------------------------------

\* "not username or not password", line 378
Missing(field) == field = "none"

\* lines 393: the row exists and check_password_hash accepts the password
Verified(req) ==
    /\ req.username \in DOMAIN users
    /\ users[req.username] = req.password

\* lines 368-381
StartLogin(t, req) ==
    /\ Free(t)
    /\ req.kind = "login"
    /\ started' = started + 1
    /\ LET loc == [Handler(req) EXCEPT !.entered = TRUE, !.try = "login",
                                       !.span = OpenSpan]
       IN  IF req.body # "ok"
           THEN /\ th' = [th EXCEPT ![t] = Throw(loc)]
                /\ UNCHANGED <<api_calls, exported>>
           ELSE IF Missing(req.username) \/ Missing(req.password)
           THEN /\ ApiAdd("/login", "error")
                /\ th' = [th EXCEPT ![t] =
                            [loc EXCEPT !.incE = @ + 1, !.obs = <<"counter">>,
                                        !.span = CloseSpan(@, FALSE),
                                        !.resp = [code |-> 400, status |-> "error"],
                                        !.try = "none", !.pc = "done"]]
           ELSE /\ th' = [th EXCEPT ![t] = [loc EXCEPT !.pc = "login_db"]]
                /\ UNCHANGED <<api_calls, exported>>
    /\ UNCHANGED <<api_logs, history, failed, clock, session, users, messages,
                   sessKeys, db_ops, units, topic, viewer>>

\* lines 383-398 and 419-422
LoginDb(t) ==
    /\ th[t].pc = "login_db"
    /\ IF ~th[t].req.db
       THEN /\ th' = [th EXCEPT ![t] = Throw(@)]
            /\ UNCHANGED <<api_calls, db_ops, exported>>
       ELSE /\ db_ops' = db_ops + 1
            /\ IF Verified(th[t].req)
               THEN /\ th' = [th EXCEPT ![t] =
                                CallConnect([@ EXCEPT !.user_id = th[t].req.username,
                                                      !.try = "sess"],
                                            "sess_set")]
                    /\ UNCHANGED <<api_calls, exported>>
               ELSE /\ ApiAdd("/login", "error")
                    /\ th' = [th EXCEPT ![t].incE = @ + 1,
                                        ![t].obs = <<"counter", "logline">>,
                                        ![t].span = CloseSpan(@, FALSE),
                                        ![t].resp = [code |-> 401, status |-> "error"],
                                        ![t].try = "none", ![t].pc = "done"]
    /\ UNCHANGED <<api_logs, history, failed, clock, started, session, users,
                   messages, sessKeys, units, topic, viewer>>

\* lines 399-404
SessSet(t, ok) ==
    /\ th[t].pc = "sess_set"
    /\ IF ok
       THEN /\ sessKeys' = [sessKeys EXCEPT ![th[t].user_id] = "no_ttl"]
            /\ th' = [th EXCEPT ![t].pc = "sess_expire"]
       ELSE /\ th' = [th EXCEPT ![t] = Throw(@)]
            /\ UNCHANGED sessKeys
    /\ UNCHANGED <<api_logs, history, failed, clock, started, session, users,
                   messages, api_calls, db_ops, exported, units, topic, viewer>>

\* line 405
SessExpire(t, ok) ==
    /\ th[t].pc = "sess_expire"
    /\ IF ok
       THEN /\ sessKeys' = [sessKeys EXCEPT ![th[t].user_id] =
                              IF @ = "absent" THEN @ ELSE "ttl"]
            /\ th' = [th EXCEPT ![t].pc = "login_ok", ![t].try = "login"]
       ELSE /\ th' = [th EXCEPT ![t] = Throw(@)]
            /\ UNCHANGED sessKeys
    /\ UNCHANGED <<api_logs, history, failed, clock, started, session, users,
                   messages, api_calls, db_ops, exported, units, topic, viewer>>

\* lines 409-417; the session written on line 394 goes out with the response
LoginOk(t) ==
    /\ th[t].pc = "login_ok"
    /\ ApiAdd("/login", "success")
    /\ session' = th[t].user_id
    /\ th' = [th EXCEPT ![t] =
                [DropClient(@) EXCEPT !.incS = @ + 1, !.span = CloseSpan(@, FALSE),
                                      !.obs = <<"counter", "logline">>,
                                      !.resp = [code |-> 200, status |-> "success"],
                                      !.try = "none", !.pc = "done"]]
    /\ UNCHANGED <<api_logs, history, failed, clock, started, users, messages,
                   sessKeys, db_ops, units, topic, viewer>>

\* lines 428-431 (the span was flagged on entry to the clause)
LoginExc(t) ==
    /\ th[t].pc = "login_exc"
    /\ ApiAdd("/login", "error")
    /\ th' = [th EXCEPT ![t].incE = @ + 1, ![t].span = CloseSpan(@, FALSE),
                        ![t].obs = <<"counter", "logline">>,
                        ![t].resp = [code |-> 500, status |-> "error"],
                        ![t].pc = "done"]
    /\ UNCHANGED <<api_logs, history, failed, clock, started, session, users,
                   messages, sessKeys, db_ops, units, topic, viewer>>

\* ---- get_kafka_logs -----------------------------------------------------

\* auto_offset_reset='earliest', line 490: the offset of the first retained
\* event of the partition.
Earliest == 0

\* Where a consumer of the group starts when the partition is assigned to it:
\* at the group's committed offset, and only if there is none at the earliest
\* event (lines 489-490).
Position(committed) == IF committed < 0 THEN Earliest ELSE committed

Seek(loc, committed) ==
    [loc EXCEPT !.pos = Position(committed),
                !.startPos = IF @ < 0 THEN Position(committed) ELSE @]

\* lines 497-504
LogOf(e) ==
    [timestamp |-> e.timestamp, endpoint |-> e.endpoint, method |-> e.method,
     status |-> e.status, user_id |-> e.user_id, message |-> e.message]

\* The variant of line 505 that leaves the loop one event later.
ShouldBreakAfter(n) == n > DrainLimit

\* line 505
ShouldBreak(n) == n >= DrainLimit

\* lines 496-506 over the events the consumer has fetched: each is appended
\* and the loop is left behind the first one that makes the test of line 505
\* true.
Consume(logs, batch) ==
    LET stops == {c \in 1..Len(batch) : ShouldBreak(Len(logs) + c)}
        n == IF stops = {} THEN Len(batch)
             ELSE CHOOSE c \in stops : \A d \in stops : c <= d
    IN logs \o [i \in 1..n |-> LogOf(batch[i])]

\* line 511, list.sort(key=timestamp, reverse=True): a stable sort.  Each
\* element is inserted, in the list's order, before the elements with a
\* smaller timestamp and behind the others.
SortDesc(s) == SortSeq(s, LAMBDA a, b : a.timestamp > b.timestamp)

DrainReq == [NoReq EXCEPT !.kind = "drain"]

\* lines 479-492: login_required, then the consumer is constructed (ok) or
\* KafkaConsumer raises
StartDrain(t, ok) ==
    /\ Free(t)
    /\ started' = started + 1
    /\ th' = [th EXCEPT ![t] =
           IF ~HasUser(session)
           THEN Unauthorized(DrainReq)
           ELSE IF ok
           THEN [Handler(DrainReq) EXCEPT !.pc = "drain_join", !.try = "drain",
                                          !.entered = TRUE]
           ELSE Throw([Handler(DrainReq) EXCEPT !.try = "drain", !.entered = TRUE])]
    /\ UNCHANGED <<api_logs, history, failed, clock, session, users, messages,
                   sessKeys, api_calls, db_ops, exported, units, topic, viewer>>

\* line 496, the first step of the iteration: the consumer joins the group
\* 'api-logs-viewer' and the group is rebalanced: the partition's owner
\* commits what it has consumed, and the partition goes to a member o, which
\* starts at the committed offset.
DrainJoin(t) ==
    /\ th[t].pc = "drain_join"
    /\ \E o \in viewer.members \cup {t} :
        LET old == viewer.owner
            committed == IF old = "none" THEN viewer.committed ELSE th[old].pos
        IN /\ viewer' = [committed |-> committed,
                         members |-> viewer.members \cup {t}, owner |-> o]
           /\ th' = [u \in Threads |->
                  LET loc == IF u = t THEN [th[t] EXCEPT !.pc = "drain_poll"]
                             ELSE th[u]
                  IN IF u = o THEN Seek(loc, committed) ELSE loc]
    /\ UNCHANGED <<api_logs, history, failed, clock, started, session, users,
                   messages, sessKeys, api_calls, db_ops, exported, units, topic>>

\* lines 496-506: the events fetched from the consumer's position go through
\* the loop body (ok), or the iteration raises
DrainPoll(t, ok) ==
    /\ th[t].pc = "drain_poll"
    /\ IF ok
       THEN /\ viewer.owner = t
            /\ th[t].pos < Len(topic)
            /\ LET more == Consume(th[t].logs,
                                   SubSeq(topic, th[t].pos + 1, Len(topic)))
               IN th' = [th EXCEPT ![t].logs = more,
                                   ![t].pos = @ + Len(more) - Len(th[t].logs),
                                   ![t].pc = IF ShouldBreak(Len(more))
                                             THEN "drain_close" ELSE "drain_poll"]
       ELSE th' = [th EXCEPT ![t].raised = TRUE, ![t].pc = "drain_close"]
    /\ UNCHANGED <<api_logs, history, failed, clock, started, session, users,
                   messages, sessKeys, api_calls, db_ops, exported, units, topic,
                   viewer>>

\* The variant without consumer_timeout_ms (the client's default): the
\* iteration blocks until an event arrives.
IdleTimeoutNever(idle) == FALSE

\* consumer_timeout_ms=5000, line 491: the iteration ends when no event has
\* reached the consumer for five seconds
IdleTimeout(idle) == idle

\* line 496 under line 491: nothing can be fetched, and the iteration ends
DrainTimeout(t) ==
    /\ th[t].pc = "drain_poll"
    /\ IdleTimeout(viewer.owner # t \/ th[t].pos >= Len(topic))
    /\ th' = [th EXCEPT ![t].pc = "drain_close"]
    /\ UNCHANGED <<api_logs, history, failed, clock, started, session, users,
                   messages, sessKeys, api_calls, db_ops, exported, units, topic,
                   viewer>>

\* lines 507-512: consumer.close() commits the consumed position (ok) or
\* fails to, and leaves the group, whose partition goes to a remaining
\* member; then the list is sorted and returned, or the loop's exception goes
\* on to the except clause
DrainClose(t, ok) ==
    /\ th[t].pc = "drain_close"
    /\ LET owned == viewer.owner = t
           committed == IF owned /\ ok THEN th[t].pos ELSE viewer.committed
           rest == viewer.members \ {t}
           sorted == SortDesc(th[t].logs)
       IN \E o \in (IF ~owned THEN {viewer.owner}
                    ELSE IF rest = {} THEN {"none"} ELSE rest) :
           /\ viewer' = [committed |-> committed, members |-> rest, owner |-> o]
           /\ th' = [u \in Threads |->
                  IF u = t
                  THEN IF th[t].raised
                       THEN Throw(th[t])
                       ELSE [th[t] EXCEPT
                               !.pc = "done", !.try = "none",
                               !.out = sorted,
                               !.resp = [code |-> 200, status |-> "ok"]]
                  ELSE IF owned /\ u = o THEN Seek(th[u], committed) ELSE th[u]]
    /\ UNCHANGED <<api_logs, history, failed, clock, started, session, users,
                   messages, sessKeys, api_calls, db_ops, exported, units, topic>>

\* ---- get_from_db and search_messages -------------------------------------

QueryReq(kind, db, thread) == [NoReq EXCEPT !.kind = kind, !.db = db, !.thread = thread]

Queries == {"list", "search"}

\* lines 284 and 468: the endpoint label of the audit event
QueryEndpoint(op) == IF op = "list" THEN "/db/messages" ELSE "/db/messages/search"

\* lines 271-274 and 451-454: behind login_required
StartQuery(t, req) ==
    /\ Free(t)
    /\ req.kind \in Queries
    /\ started' = started + 1
    /\ th' = [th EXCEPT ![t] =
                IF ~HasUser(session)
                THEN Unauthorized(req)
                ELSE [Handler(req) EXCEPT !.entered = TRUE, !.user_id = session,
                                          !.try = "query", !.pc = "query_db"]]
    /\ UNCHANGED <<api_logs, history, failed, clock, session, users, messages,
                   sessKeys, api_calls, db_ops, exported, units, topic, viewer>>

\* lines 275-286 and 455-470: the SELECT, then the audit event of the success
QueryDb(t) ==
    /\ th[t].pc = "query_db"
    /\ LET target == LogClosure(t, QueryEndpoint(th[t].op), "GET", "success",
                                th[t].user_id)
       IN  IF th[t].req.db /\ ThreadStarts(th[t])
           THEN /\ units' = Append(units, Thread_start(target))
                /\ th' = [th EXCEPT ![t].handed = Append(@, target),
                                    ![t].obs = Append(@, "publish"),
                                    ![t].resp = [code |-> 200, status |-> "success"],
                                    ![t].try = "none", ![t].pc = "done"]
           ELSE /\ th' = [th EXCEPT ![t] = Throw(@)]
                /\ UNCHANGED units
    /\ UNCHANGED <<api_logs, history, failed, clock, started, session, users,
                   messages, sessKeys, api_calls, db_ops, exported, topic, viewer>>

\* lines 287-291 and 471-475: the request's session is the one the gate saw
QueryExc(t) ==
    /\ th[t].pc = "query_exc"
    /\ LET target == LogClosure(t, QueryEndpoint(th[t].op), "GET", "error",
                                th[t].user_id)
       IN  IF th[t].user_id = "none"
           THEN /\ th' = [th EXCEPT ![t].resp = [code |-> 500, status |-> "error"],
                                    ![t].pc = "done"]
                /\ UNCHANGED units
           ELSE IF ThreadStarts(th[t])
           THEN /\ units' = Append(units, Thread_start(target))
                /\ th' = [th EXCEPT ![t].handed = Append(@, target),
                                    ![t].obs = Append(@, "publish"),
                                    ![t].resp = [code |-> 500, status |-> "error"],
                                    ![t].pc = "done"]
           ELSE /\ th' = [th EXCEPT ![t] = Uncaught(@)]
                /\ UNCHANGED units
    /\ UNCHANGED <<api_logs, history, failed, clock, started, session, users,
                   messages, sessKeys, api_calls, db_ops, exported, topic, viewer>>

Query(t) == QueryDb(t) \/ QueryExc(t)

\* ---- register -----------------------------------------------------------

RegisterReq(body, username, password, db) ==
    [kind |-> "register", body |-> body, username |-> username,
     password |-> password, db |-> db, thread |-> "ok"]

\* lines 331-363: the row is inserted when both fields are there, MariaDB
\* answers and the name is not taken
Register(t, req) ==
    /\ Free(t)
    /\ req.kind = "register"
    /\ started' = started + 1
    /\ LET loc == [Handler(req) EXCEPT !.entered = TRUE, !.pc = "done"]
           answer(code, status) == [loc EXCEPT !.resp = [code |-> code, status |-> status]]
       IN  IF req.body # "ok" \/ (~Missing(req.username) /\ ~Missing(req.password)
                                   /\ ~req.db)
           THEN th' = [th EXCEPT ![t] = answer(500, "error")] /\ UNCHANGED users
           ELSE IF Missing(req.username) \/ Missing(req.password)
                   \/ req.username \in DOMAIN users
           THEN th' = [th EXCEPT ![t] = answer(400, "error")] /\ UNCHANGED users
           ELSE /\ users' = [u \in DOMAIN users \cup {req.username} |->
                               IF u = req.username THEN req.password ELSE users[u]]
                /\ th' = [th EXCEPT ![t] = answer(200, "success")]
    /\ UNCHANGED <<api_logs, history, failed, clock, session, messages, sessKeys,
                   api_calls, db_ops, exported, units, topic, viewer>>

\* ---- logout -------------------------------------------------------------

LogoutReq == [NoReq EXCEPT !.kind = "logout"]

\* The variant of Redis DEL that leaves the key.
RedisDeleteKeeps(keys, k) == keys

\* Redis DEL key
RedisDelete(keys, k) == [keys EXCEPT ![k] = "absent"]

\* lines 436-441: without a user_id in the session there is nothing to do
StartLogout(t) ==
    /\ Free(t)
    /\ started' = started + 1
    /\ LET loc == [Handler(LogoutReq) EXCEPT !.entered = TRUE, !.try = "logout"]
       IN th' = [th EXCEPT ![t] =
                   IF session = "none"
                   THEN [loc EXCEPT !.resp = [code |-> 200, status |-> "success"],
                                    !.try = "none", !.pc = "done"]
                   ELSE CallConnect([loc EXCEPT !.user_id = session,
                                                !.keyBefore = sessKeys[session]],
                                    "logout_del")]
    /\ UNCHANGED <<api_logs, history, failed, clock, session, users, messages,
                   sessKeys, api_calls, db_ops, exported, units, topic, viewer>>

\* line 442
LogoutDelete(t, ok) ==
    /\ th[t].pc = "logout_del"
    /\ IF ok
       THEN /\ sessKeys' = RedisDelete(sessKeys, th[t].user_id)
            /\ th' = [th EXCEPT ![t].pc = "logout_pop"]
       ELSE /\ th' = [th EXCEPT ![t] = Throw(@)]
            /\ UNCHANGED sessKeys
    /\ UNCHANGED <<api_logs, history, failed, clock, started, session, users,
                   messages, api_calls, db_ops, exported, units, topic, viewer>>

\* lines 443-444: the session without user_id goes out with the response
LogoutPop(t) ==
    /\ th[t].pc = "logout_pop"
    /\ session' = "none"
    /\ th' = [th EXCEPT ![t] =
                [DropClient(@) EXCEPT !.resp = [code |-> 200, status |-> "success"],
                                      !.try = "none", !.pc = "done"]]
    /\ UNCHANGED <<api_logs, history, failed, clock, started, users, messages,
                   sessKeys, api_calls, db_ops, exported, units, topic, viewer>>

Logout(t) == (\E ok \in BOOLEAN : LogoutDelete(t, ok)) \/ LogoutPop(t)

\* ---- the request handlers with their sinks ------------------------------

SaveReq(body, db, thread) ==
    [kind |-> "save", body |-> body, username |-> "none", password |-> "none",
     db |-> db, thread |-> thread]

LoginReq(body, username, password, db) ==
    [kind |-> "login", body |-> body, username |-> username, password |-> password,
     db |-> db, thread |-> "ok"]

\* The requests a client sends, with what MariaDB and the thread table do.
Requests ==
    {SaveReq("ok", TRUE, "ok"), SaveReq("ok", TRUE, "fail"),
     SaveReq("ok", FALSE, "ok"), SaveReq("ok", FALSE, "fail"), SaveReq("bad", TRUE, "ok"),
     LoginReq("ok", "alice", "pw", TRUE), LoginReq("ok", "alice", "bad", TRUE),
     LoginReq("ok", "bob", "pw", TRUE), LoginReq("ok", "none", "pw", TRUE),
     LoginReq("ok", "alice", "none", TRUE), LoginReq("ok", "alice", "pw", FALSE),
     LoginReq("bad", "none", "none", TRUE)}

\* The client holds no cookie, or the cookie of an earlier login (the cookie
\* is signed with the secret key and outlives the process).
InitReq ==
    /\ th = [t \in Threads |-> Idle]
    /\ api_logs = <<>>
    /\ history = <<>>
    /\ failed = 0
    /\ clock = 1
    /\ started = 0
    /\ session \in {"none"} \cup Usernames
    /\ InitApp

SaveToDb(t) == SaveDb(t) \/ SavePublish(t) \/ SaveExc(t) \/ SaveFail(t)

Login(t) ==
    \/ LoginDb(t)
    \/ \E ok \in BOOLEAN : SessSet(t, ok)
    \/ \E ok \in BOOLEAN : SessExpire(t, ok)
    \/ LoginOk(t)
    \/ LoginExc(t)

\* Every step a thread serving a save_to_db or login request can take.
ThreadStep(t) == RedisConn(t) \/ LogToRedis(t) \/ SaveToDb(t) \/ Login(t)

\* Every step of the threads async_log_api_stats started.
UnitStep ==
    \E i \in DOMAIN units, ok \in BOOLEAN :
        UnitProducer(i, ok) \/ UnitSend(i, ok) \/ UnitFlush(i, ok)

\* One client's requests, served one at a time by a thread; what runs
\* beside the handler are the threads it started and the metric reader.
NextReq ==
    \/ started < MaxReqs /\ \E req \in Requests : StartSave("t1", req)
    \/ started < MaxReqs /\ \E req \in Requests : StartLogin("t1", req)
    \/ started < MaxReqs /\ StartRead("t1")
    \/ ThreadStep("t1")
    \/ GetRedisLogs("t1")
    \/ UnitStep
    \/ \E ok \in BOOLEAN : OtelExport(ok)

SpecReq == InitReq /\ [][NextReq]_vars

\* ---- two runs of one request ---------------------------------------------

\* The same request, with the same behaviour of MariaDB and of the thread
\* table, is served twice, by one thread and then by the other; what the sinks (Redis, Kafka,
\* the OTLP exporter) do is chosen anew at every step of either run.
InitPair ==
    /\ \E req \in Requests : th = [t \in Threads |-> [Idle EXCEPT !.req = req]]
    /\ api_logs = <<>>
    /\ history = <<>>
    /\ failed = 0
    /\ clock = 1
    /\ started = 0
    /\ session \in {"none"} \cup Usernames
    /\ InitApp

\* The second run starts when the first has answered.
PairTurn(t) ==
    /\ th[t].pc = "idle"
    /\ t = "t2" => th["t1"].pc = "done"

NextPair ==
    \/ \E t \in Threads : PairTurn(t) /\ StartSave(t, th[t].req)
    \/ \E t \in Threads : PairTurn(t) /\ StartLogin(t, th[t].req)
    \/ \E t \in Threads : ThreadStep(t)
    \/ UnitStep
    \/ \E ok \in BOOLEAN : OtelExport(ok)

SpecPair == InitPair /\ [][NextPair]_vars

\* ---- the recent-activity log on its own ---------------------------------

PrefillEntry(i) == [timestamp |-> i, action |-> "db_insert", details |-> "m"]

InitLog ==
    /\ th = [t \in Threads |-> Idle]
    /\ \E k \in PrefillSizes :
          /\ history = [i \in 1..k |-> PrefillEntry(i)]
          /\ api_logs = [i \in 1..k |-> JsonDumps(PrefillEntry(k + 1 - i))]
          /\ clock = k + 1
    /\ failed = 0
    /\ started = 0
    /\ InitApp
    /\ session = "none"

NextLog ==
    \E t \in Threads :
        \/ started < MaxOps /\ \E a \in Actions : StartRecord(t, a, "m")
        \/ started < MaxOps /\ StartRead(t)
        \/ RedisConn(t)
        \/ LogToRedis(t)
        \/ GetRedisLogs(t)

SpecLog == InitLog /\ [][NextLog]_vars

\* ---- claims about the recent-activity log -------------------------------

\* The entries a read at history length n should return according to the
\* contract: the LogCap most recently pushed, newest first.
NewestFirst(n) == [i \in 1..LogCap |-> history[n + 1 - i]]

ReadDone(t) == th[t].op = "read" /\ th[t].pc = "done" /\ th[t].resp.code = 200

\* C1: after at least 101 successful record calls (none failed, none in
\* flight), get_redis_logs returns exactly the 100 most recently recorded
\* entries, newest first.
C1_ReadNewestFirst ==
    \A t \in Threads :
        (ReadDone(t) /\ th[t].quiet /\ th[t].histAt >= LogCap + 1)
            => th[t].out = NewestFirst(th[t].histAt)

\* C2: in every reachable state the list under api_logs holds at most 100
\* entries.
C2_ListNeverOverCap == Len(api_logs) <= LogCap

\* The step in which the last attempt of get_redis_connection fails.
AllAttemptsFailStep(t) ==
    /\ th[t].pc = "connect"
    /\ th[t].pings = max_retries - 1
    /\ th'[t].pings = max_retries
    /\ ~th'[t].lastPing

\* C6: when all 3 connection attempts fail, get_redis_connection raises, and
\* log_to_redis catches the error: it returns normally to its caller, nothing
\* escapes, and the call has written nothing to the store.
C6_ConnectFailureSwallowed ==
    [][\A t \in Threads :
          (AllAttemptsFailStep(t) /\ th[t].try = "rec")
              => /\ th'[t].connRaised
                 /\ th'[t].recRaised
                 /\ th'[t].pc = th[t].recRet
                 /\ ~th'[t].escaped
                 /\ th'[t].pushes = 0
                 /\ api_logs' = api_logs]_vars

C6_Witness ==
    \E t \in Threads :
        /\ th[t].op = "record" /\ th[t].pc = "done"
        /\ th[t].connRaised /\ th[t].pings = max_retries
        /\ ~th[t].escaped /\ th[t].pushes = 0

\* C7: get_redis_connection makes at most 3 attempts; it stays in the loop
\* only after a failed ping and has then slept once per failed attempt; it
\* returns a client only after a successful ping, with one sleep per earlier
\* failure (at most 2); it raises exactly when all 3 attempts failed, with no
\* sleep after the last.
C7_ConnectBounded ==
    \A t \in Threads :
        /\ th[t].pings <= max_retries
        /\ th[t].slept <= retry_delay * (max_retries - 1)
        /\ th[t].conn => th[t].lastPing
        /\ th[t].pc = "connect"
              => /\ th[t].pings < max_retries
                 /\ th[t].attempt = th[t].pings
                 /\ ~th[t].lastPing /\ ~th[t].connRaised
                 /\ th[t].slept = retry_delay * th[t].pings
        /\ (th[t].pc # "connect" /\ th[t].pings > 0)
              => /\ th[t].connRaised <=> (th[t].pings = max_retries /\ ~th[t].lastPing)
                 /\ th[t].connRaised <=> ~th[t].lastPing
                 /\ th[t].lastPing => th[t].slept = retry_delay * (th[t].pings - 1)
                 /\ th[t].connRaised => th[t].slept = retry_delay * (max_retries - 1)

C7_Witness ==
    /\ \E t \in Threads : th[t].connRaised /\ th[t].slept = retry_delay * (max_retries - 1)
    /\ \E t \in Threads : th[t].conn /\ th[t].pings = max_retries

\* ---- claims about the request handlers ----------------------------------

\* C3: two runs of the same save_to_db or login request under the same
\* behaviour of MariaDB, which differ only in what the sinks (Redis, Kafka,
\* the OTLP exporter) do, answer with the same status code and the same
\* success/error body.
C3_SameOutcome ==
    (th["t1"].pc = "done" /\ th["t2"].pc = "done")
        => th["t1"].resp = th["t2"].resp

C3_Witness ==
    /\ th["t1"].pc = "done" /\ th["t2"].pc = "done"
    /\ th["t1"].op = "save" /\ th["t1"].resp.code = 200
    /\ th["t1"].recRaised /\ ~th["t2"].recRaised
    /\ \E i, j \in DOMAIN units :
          /\ units[i].owner = "t1" /\ units[i].st = "failed"
          /\ units[j].owner = "t2" /\ units[j].st = "done"

\* C4: async_log_api_stats returns without waiting for its thread: the thread
\* it starts has not created its producer, sent or flushed when the call
\* returns and the caller moves on in that same step; and no step of such a
\* thread, failing or not, changes anything of a request thread (its position,
\* its response, what it raised).
C4_PublishDetached ==
    [][/\ \A i \in DOMAIN units' :
             i \notin DOMAIN units
                 => /\ units'[i].st = "spawned"
                    /\ th'[units'[i].owner].pc # th[units'[i].owner].pc
       /\ (\E i \in DOMAIN units : units'[i] # units[i]) => th' = th]_vars

C4_Witness ==
    \E t \in Threads, i \in DOMAIN units :
        /\ units[i].owner = t /\ units[i].st = "failed"
        /\ th[t].pc = "done" /\ th[t].resp.code = 200 /\ ~th[t].escaped

\* C5: every handled request makes exactly one api.calls increment: one
\* reported as error increments the error-labeled counter once and the
\* success-labeled counter not at all, and the reverse for success, also when
\* a step after the first increment fails.
C5_OneIncrementPerRequest ==
    \A t \in Threads :
        (th[t].pc = "done" /\ th[t].entered)
            => IF th[t].resp.status = "success"
               THEN th[t].incS = 1 /\ th[t].incE = 0
               ELSE th[t].incE = 1 /\ th[t].incS = 0

\* C10: a /login POST that ends with outcome error while no actor is
\* authenticated does not raise, increments the request counter and hands one
\* audit event with a null actor id to the audit publisher.
C10_LoginErrorAudited ==
    \A t \in Threads :
        (th[t].op = "login" /\ th[t].pc = "done" /\ th[t].resp.status = "error"
            /\ session = "none")
            => /\ ~th[t].escaped
               /\ th[t].incE = 1
               /\ Len(th[t].handed) = 1
               /\ th[t].handed[1].user_id = "none"

\* ---- the audit topic and its viewer --------------------------------------

\* The topic outlives the process: it holds the events of earlier requests,
\* one short of a full drain or one more, delivered in the order of their
\* timestamps or, where two publishers raced, pairwise out of it.
DrainPrefill == {DrainLimit - 1, DrainLimit + 1}

PrefillTs(i, k, raced) ==
    IF ~raced THEN i
    ELSE IF i % 2 = 0 THEN i - 1
    ELSE IF i < k THEN i + 1 ELSE i

PrefillEvent(ts) ==
    AuditEvent([LogClosure("t1", "/db/message", "POST", "success", "alice")
                   EXCEPT !.timestamp = ts])

\* The closure of a failed save whose thread has not run yet.
PendingUnit == Thread_start(LogClosure("t1", "/db/message", "POST", "error", "alice"))

InitDrain ==
    /\ th = [t \in Threads |-> Idle]
    /\ api_logs = <<>>
    /\ history = <<>>
    /\ failed = 0
    /\ started = 0
    /\ session \in {"none"} \cup Usernames
    /\ users = [u \in Usernames |-> "pw"]
    /\ messages = 0
    /\ sessKeys = [u \in Names |-> "absent"]
    /\ units = <<PendingUnit>>
    /\ api_calls = [l \in Endpoints \X Statuses |->
                      IF l = <<"/db/message", "error">> THEN Len(units) ELSE 0]
    /\ db_ops = 0
    /\ exported = TRUE
    /\ \E k \in DrainPrefill, raced \in BOOLEAN :
          /\ topic = [i \in 1..k |-> PrefillEvent(PrefillTs(i, k, raced))]
          /\ clock = k + 1
    /\ viewer = NoGroup

GetKafkaLogs(t) ==
    \/ DrainJoin(t)
    \/ \E ok \in BOOLEAN : DrainPoll(t, ok)
    \/ DrainTimeout(t)
    \/ \E ok \in BOOLEAN : DrainClose(t, ok)

NextDrain ==
    \/ \E t \in Threads :
        \/ started < MaxDrains /\ \E ok \in BOOLEAN : StartDrain(t, ok)
        \/ GetKafkaLogs(t)
    \/ UnitStep

SpecDrain == InitDrain /\ [][NextDrain]_vars

\* The steps of a drain that need no failure to happen: a thread serving a
\* request is scheduled, and the client's timers run.
DrainProgress(t) ==
    \/ DrainJoin(t)
    \/ DrainPoll(t, TRUE)
    \/ DrainTimeout(t)
    \/ \E ok \in BOOLEAN : DrainClose(t, ok)

\* The drains of one client, which sends a request when it has the answer
\* to the one before.
NextDrainFair ==
    \/ \E t \in Threads :
        \/ started < MaxReqs /\ \E ok \in BOOLEAN : StartDrain(t, ok)
        \/ GetKafkaLogs(t)
    \/ UnitStep

SpecDrainFair ==
    InitDrain /\ [][NextDrainFair]_vars /\ \A t \in Threads : WF_vars(DrainProgress(t))

\* ---- claims about the viewer ---------------------------------------------

SortedDesc(s) ==
    \A i \in 1..(Len(s) - 1) : s[i].timestamp >= s[i + 1].timestamp

DrainReturned(t) ==
    /\ th[t].op = "drain"
    /\ th[t].pc = "done"
    /\ th[t].resp.code = 200

\* C8: get_kafka_logs never collects or returns more than 100 events, however
\* many the topic retains, and the list it returns is sorted by timestamp in
\* descending order.
C8_DrainBoundedSorted ==
    \A t \in Threads :
        th[t].op = "drain" =>
            /\ Len(th[t].logs) <= DrainLimit
            /\ DrainReturned(t) =>
                  /\ Len(th[t].out) <= DrainLimit
                  /\ SortedDesc(th[t].out)

\* A drain over a topic of more than 100 events returned 100 of them, in an
\* order other than the one it read them in.
C8_Witness ==
    \E t \in Threads :
        /\ DrainReturned(t)
        /\ Len(topic) > DrainLimit
        /\ Len(th[t].out) = DrainLimit
        /\ th[t].out # th[t].logs

\* C9: every drain whose consumer was given the partition started reading at
\* the earliest retained event, whatever other drains did before or beside it.
C9_DrainsFromEarliest ==
    \A t \in Threads :
        (th[t].op = "drain" /\ th[t].startPos >= 0) => th[t].startPos = Earliest

\* ---- reading a list that other clients wrote to -------------------------

\* A string stored under api_logs that is not JSON: the key is open to every
\* client of the Redis instance.
Plain(x) == [json |-> FALSE, text |-> x]

StoredItems == {JsonDumps(PrefillEntry(1)), JsonDumps(PrefillEntry(2)), Plain("x")}

\* The list holds up to MaxStored items of either kind at its tail, before
\* them nothing or the entries of LogCap - 1 later log_to_redis calls.
InitRead ==
    /\ th = [t \in Threads |-> Idle]
    /\ \E n \in 0..MaxStored, k \in {0, LogCap - 1} :
        \E tail \in [1..n -> StoredItems] :
            api_logs = [i \in 1..k |-> JsonDumps(PrefillEntry(k + 1 - i))] \o tail
    /\ history = <<>>
    /\ clock = LogCap
    /\ failed = 0
    /\ started = 0
    /\ InitApp
    /\ session = "none"

NextRead ==
    \E t \in Threads :
        \/ started < MaxReqs /\ StartRead(t)
        \/ RedisConn(t)
        \/ GetRedisLogs(t)

SpecRead == InitRead /\ [][NextRead]_vars

\* C11: get_redis_logs answers 200 whatever the fetched items are; its output
\* is as long as the fetched list, an item that is not JSON stands in it as
\* {"raw": item} with the item unchanged, a JSON item as its parsed value, and
\* the items stand in one order (that of the fetched list, reversed as a
\* whole), none dropped or moved past another.
C11_MalformedKept ==
    \A t \in Threads :
        (th[t].op = "read" /\ th[t].pc = "done" /\ th[t].resp.code = 200)
            => /\ Len(th[t].out) = Len(th[t].raw)
               /\ \A i \in 1..Len(th[t].raw) :
                     LET item == th[t].raw[Len(th[t].raw) + 1 - i]
                     IN th[t].out[i] = IF item.json THEN item.text
                                       ELSE [raw |-> item]

\* A read returned a full window of 100 items (the list held more) in which
\* an item that is not JSON stands between two that are.
C11_Witness ==
    \E t \in Threads :
        /\ ReadDone(t)
        /\ Len(api_logs) > LogCap
        /\ Len(th[t].raw) = LogCap
        /\ \E i, j, k \in (LogCap - MaxStored + 1)..LogCap :
              /\ i < j /\ j < k
              /\ th[t].raw[i].json /\ ~th[t].raw[j].json /\ th[t].raw[k].json

\* ---- claims about the order and the scope of the reporting steps --------

\* The order the contract gives the steps of one report.
StepRank == [counter |-> 1, logline |-> 2, record |-> 3, publish |-> 4]

\* C12: in every request the observability steps are made in the order
\* counter increment, log line, recent-activity record, audit publish: no step
\* is made after one that the order puts behind it, so no record is made after
\* the publish of the same request.
C12_FixedOrder ==
    \A t \in Threads :
        \A i, j \in 1..Len(th[t].obs) :
            i < j => StepRank[th[t].obs[i]] <= StepRank[th[t].obs[j]]

\* C13: when a log_to_redis call has ended, the Redis client it opened has
\* been closed, and when a _log thread has ended, the producer it created has
\* been closed, whichever step failed.
C13_HandlesReleased ==
    /\ \A t \in Threads :
          (th[t].op = "save" /\ ~InRecord(t)) => th[t].unclosed = 0
    /\ \A i \in DOMAIN units :
          units[i].st \in {"done", "failed"} => ~units[i].producer

\* The thread serves a request whose handler body, and so its span, started.
Traced(t) ==
    \/ th[t].op \in {"login", "read"}
    \/ th[t].op = "save" /\ th[t].entered

\* C14: when a traced handler has reported the outcome error (it incremented
\* the error-labeled counter or answers with an error), the closed span of the
\* request carries the error attributes, and the span of a request answered
\* with success does not.
C14_ErrorFlagged ==
    \A t \in Threads :
        (Traced(t) /\ th[t].pc = "done")
            => /\ (th[t].incE > 0 \/ th[t].resp.status # "success")
                    => th[t].span.error
               /\ th[t].resp.status = "success" => ~th[t].span.error

\* C15: a request of a business handler that has been answered handed exactly
\* one audit event to async_log_api_stats.
C15_OneAuditEvent ==
    \A t \in Threads :
        (th[t].op \in {"save", "login"} /\ th[t].entered /\ th[t].pc = "done")
            => Len(th[t].handed) = 1

\* C16: the span of a traced handler is open while the handler runs and has
\* been closed exactly once when it has answered, on the return paths and when
\* an exception leaves the handler; and a closed span is not written to (the
\* thread's span changes again only when it takes the next request, whose
\* span is a new one).
C16_SpanClosedOnce ==
    /\ [](\A t \in Threads :
            Traced(t) => IF th[t].pc = "done"
                         THEN ~th[t].span.open /\ th[t].span.closes = 1
                         ELSE th[t].span.open /\ th[t].span.closes = 0)
    /\ [][\A t \in Threads :
            (th[t].span.closes > 0 /\ th'[t].span # th[t].span)
                => (started' = started + 1 /\ th'[t].span.closes <= 1)]_vars

\* An exception left save_to_db past its except clause, and the span was
\* closed once.
C16_Witness ==
    \E t \in Threads :
        /\ th[t].op = "save" /\ th[t].pc = "done" /\ th[t].escaped
        /\ th[t].span.closes = 1 /\ ~th[t].span.open

Draining(t) == th[t].pc \in {"drain_join", "drain_poll", "drain_close"}

\* C17: every get_kafka_logs request that has opened its consumer comes to an
\* end: the loop is left, the consumer is closed (it has left the group) and
\* the request is answered, also when the topic delivers nothing more.
C17_DrainTerminates ==
    \A t \in Threads :
        Draining(t) ~> (th[t].pc = "done" /\ t \notin viewer.members)

\* A drain read what the topic held, fewer than 100 events, and returned: the
\* loop was ended by the idle timeout.
C17_Witness ==
    \E t \in Threads :
        /\ DrainReturned(t)
        /\ t \notin viewer.members
        /\ Len(th[t].out) > 0
        /\ Len(th[t].out) < DrainLimit


\* ---- one client's session ------------------------------------------------

\* What one client sends: registrations, logins, logouts and the requests
\* behind login_required, with what MariaDB does.
SessRequests ==
    {RegisterReq("ok", "bob", "pw", TRUE), RegisterReq("ok", "none", "pw", TRUE),
     RegisterReq("ok", "alice", "pw", TRUE), RegisterReq("ok", "bob", "pw", FALSE),
     LoginReq("ok", "alice", "pw", TRUE), LoginReq("ok", "alice", "bad", TRUE),
     LoginReq("ok", "bob", "pw", TRUE), LoginReq("ok", "alice", "pw", FALSE),
     SaveReq("ok", TRUE, "ok"), SaveReq("ok", FALSE, "ok"),
     QueryReq("list", TRUE, "ok"), QueryReq("list", FALSE, "ok"),
     QueryReq("list", FALSE, "fail"), QueryReq("search", TRUE, "ok")}

\* The process after start, with one audit event in the topic; the client
\* holds no cookie, or the cookie of an earlier login.
InitSess ==
    /\ th = [t \in Threads |-> Idle]
    /\ api_logs = <<>>
    /\ history = <<>>
    /\ failed = 0
    /\ started = 0
    /\ session \in {"none"} \cup Usernames
    /\ users = [u \in Usernames |-> "pw"]
    /\ messages = 0
    /\ sessKeys = [u \in Names |-> "absent"]
    /\ units = <<>>
    /\ api_calls = [l \in Endpoints \X Statuses |-> 0]
    /\ db_ops = 0
    /\ exported = TRUE
    /\ topic = <<PrefillEvent(1)>>
    /\ clock = 2
    /\ viewer = NoGroup

\* The requests of the client, served one after the other.
NextSess ==
    \/ started < MaxSess /\ \E req \in SessRequests : Register("t1", req)
    \/ started < MaxSess /\ \E req \in SessRequests : StartLogin("t1", req)
    \/ started < MaxSess /\ StartLogout("t1")
    \/ started < MaxSess /\ \E req \in SessRequests : StartSave("t1", req)
    \/ started < MaxSess /\ \E req \in SessRequests : StartQuery("t1", req)
    \/ started < MaxSess /\ \E ok \in BOOLEAN : StartDrain("t1", ok)
    \/ ThreadStep("t1")
    \/ Query("t1")
    \/ Logout("t1")
    \/ GetKafkaLogs("t1")

SpecSess == InitSess /\ [][NextSess]_vars

\* ---- claims about the session --------------------------------------------

GatedOps == {"save", "list", "search", "drain"}

\* The step in which thread t takes a request for a gated handler.
GatedStart(t) ==
    /\ Free(t)
    /\ started' = started + 1
    /\ th'[t] # th[t]
    /\ th'[t].op \in GatedOps

\* C18: a request for a handler behind login_required that comes with no
\* user_id in the session is answered 401 and the handler's body is not run
\* (no table, counter, recent-activity list, audit thread or topic changes);
\* and the session's user_id changes only to the name of a login that verified
\* its credentials and answers success, and back to none only in a logout that
\* answers success.
C18_GateAndSession ==
    [][/\ \A t \in Threads :
            (GatedStart(t) /\ session = "none")
                => /\ th'[t].pc = "done"
                   /\ th'[t].resp.code = 401
                   /\ ~th'[t].entered
                   /\ th'[t].handed = <<>>
                   /\ UNCHANGED <<api_logs, history, users, messages, sessKeys,
                                  api_calls, db_ops, units, topic, viewer, session>>
       /\ (session' # session) =>
            \E t \in Threads :
                /\ th'[t].pc = "done"
                /\ th'[t].resp = [code |-> 200, status |-> "success"]
                /\ IF session' = "none"
                   THEN th[t].op = "logout"
                   ELSE /\ th[t].op = "login"
                        /\ Verified(th[t].req)
                        /\ session' = th[t].req.username]_vars

\* After a login and a logout that succeeded, a gated request was answered
\* 401.
C18_Witness ==
    \E t \in Threads :
        /\ th[t].op \in GatedOps /\ th[t].pc = "done"
        /\ th[t].resp.code = 401
        /\ session = "none"
        /\ sessKeys["alice"] = "absent"
        /\ api_calls[<<"/login", "success">>] >= 1

LogoutDone(t) == th[t].op = "logout" /\ th[t].pc = "done"

=============================================================================
